---- MODULE Spec2Model ----
(***************************************************************************)
(* A model of json-diff.py: two JSON documents are loaded, compared by     *)
(* compare_json (which hands all-numeric lists to                          *)
(* compare_numeric_array_stats) and the list of difference strings is      *)
(* reported by main.                                                       *)
(*                                                                         *)
(* Numbers are fixed-point: a finite number is an integer count of units   *)
(* of 5e-9, so that numpy's default atol (1e-8) is 2 units, atol/2 is one  *)
(* unit and 1.0 is 2*10^8 units.  A float can also be nan, +inf or -inf    *)
(* (json.load reads the literals NaN, Infinity and -Infinity).  The        *)
(* statistics of an array are rounded to a whole unit, as numpy rounds     *)
(* them to a float64.                                                      *)
(*                                                                         *)
(* A difference string is modelled by what it says: the path it carries    *)
(* (empty for the indented sub-lines of a statistical difference), the     *)
(* kind of message and the values formatted into it.                       *)
(***************************************************************************)
EXTENDS Integers, Sequences, FiniteSets, TLC

\* ---------------------------------------------------------------- bounds
MaxLen == 2

\* ------------------------------------------------------------- constants
\* numpy.isclose defaults: atol = 1e-8 (2 units of 5e-9), rtol = 1e-5.
ATOL == 2
RTOL_INV == 100000
ONE == 100000000 * ATOL
\* One unit in the fourth decimal place (the ":.4f" of the f-strings).
FMT4 == ONE \div 10000

\* ---------------------------------------------------------- Python values
Val(t, c, n, s, ks, its) ==
    [type |-> t, cls |-> c, n |-> n, s |-> s, keys |-> ks, items |-> its]

PyNone == Val("NoneType", "fin", 0, "", <<>>, <<>>)
PyBool(b) == Val("bool", "fin", IF b THEN ONE ELSE 0, "", <<>>, <<>>)
PyInt(n) == Val("int", "fin", n, "", <<>>, <<>>)
PyFloat(c, n) == Val("float", c, n, "", <<>>, <<>>)
PyStr(s) == Val("str", "fin", 0, s, <<>>, <<>>)
PyList(its) == Val("list", "fin", 0, "", <<>>, its)
PyDict(ks, its) == Val("dict", "fin", 0, "", ks, its)

\* ---------------------------------------------------------- JSON documents
\* A document node: kind is the JSON construct, lex the way a number is
\* written ("int": digits only; "float": with a fraction or exponent, or one
\* of NaN / Infinity / -Infinity).
Doc(k, lex, c, n, s, ks, its) ==
    [kind |-> k, lex |-> lex, cls |-> c, n |-> n, s |-> s, keys |-> ks, items |-> its]

JNull == Doc("null", "", "fin", 0, "", <<>>, <<>>)
JTrue == Doc("true", "", "fin", 0, "", <<>>, <<>>)
JFalse == Doc("false", "", "fin", 0, "", <<>>, <<>>)
JInt(n) == Doc("number", "int", "fin", n, "", <<>>, <<>>)
JFloat(n) == Doc("number", "float", "fin", n, "", <<>>, <<>>)
JNaN == Doc("number", "float", "nan", 0, "", <<>>, <<>>)
JInf == Doc("number", "float", "pinf", 0, "", <<>>, <<>>)
JNegInf == Doc("number", "float", "ninf", 0, "", <<>>, <<>>)
JStr(s) == Doc("string", "", "fin", 0, s, <<>>, <<>>)
JArr(its) == Doc("array", "", "fin", 0, "", <<>>, its)
JObj(ks, its) == Doc("object", "", "fin", 0, "", ks, its)
\* A path with no file behind it, and a file that is not JSON.
NoFile == Doc("missing", "", "fin", 0, "", <<>>, <<>>)
BadFile == Doc("invalid", "", "fin", 0, "", <<>>, <<>>)

RECURSIVE json_load(_)
json_load(d) ==
    CASE d.kind = "null" -> PyNone
      [] d.kind = "true" -> PyBool(TRUE)
      [] d.kind = "false" -> PyBool(FALSE)
      [] d.kind = "number" ->
            IF d.lex = "int" THEN PyInt(d.n) ELSE PyFloat(d.cls, d.n)
      [] d.kind = "string" -> PyStr(d.s)
      [] d.kind = "array" ->
            PyList([i \in 1..Len(d.items) |-> json_load(d.items[i])])
      [] d.kind = "object" ->
            PyDict(d.keys, [i \in 1..Len(d.items) |-> json_load(d.items[i])])

\* ------------------------------------------------------------- arithmetic
Abs(x) == IF x < 0 THEN -x ELSE x

\* a / b rounded to the nearest integer (b > 0).
RoundDiv(a, b) == (2 * a + b) \div (2 * b)

RECURSIVE ISqrtBetween(_, _, _)
ISqrtBetween(n, lo, hi) ==
    IF lo >= hi THEN lo
    ELSE LET mid == (lo + hi + 1) \div 2
         IN IF mid * mid <= n THEN ISqrtBetween(n, mid, hi)
            ELSE ISqrtBetween(n, lo, mid - 1)

\* floor(sqrt(n)) for 0 <= n < 2^30.
ISqrt(n) == ISqrtBetween(n, 0, 32767)

\* A float64 result of numpy: finite (n units), nan, +inf or -inf.
Fin(n) == PyFloat("fin", n)
NaN == PyFloat("nan", 0)
PInf == PyFloat("pinf", 0)
NInf == PyFloat("ninf", 0)

\* y - x in IEEE arithmetic; a float as soon as one operand is a float.
Minus(y, x) ==
    LET t == IF y.type = "float" \/ x.type = "float" THEN "float" ELSE "int"
        c == CASE y.cls = "nan" \/ x.cls = "nan" -> "nan"
               [] y.cls = "fin" /\ x.cls = "fin" -> "fin"
               [] y.cls = "fin" /\ x.cls = "pinf" -> "ninf"
               [] y.cls = "fin" /\ x.cls = "ninf" -> "pinf"
               [] y.cls = x.cls -> "nan"
               [] OTHER -> y.cls
    IN Val(t, c, IF c = "fin" THEN y.n - x.n ELSE 0, "", <<>>, <<>>)

\* The value formatted with ":.4f": rounded to four decimal places.
Fmt4f(v) ==
    IF v.cls = "fin" THEN Fin(RoundDiv(v.n, FMT4) * FMT4) ELSE PyFloat(v.cls, 0)

\* abs(x - y) <= atol + rtol * abs(y) on finite x, y, in whole units:
\* d <= ATOL + |y| / RTOL_INV  <=>  d - ATOL <= floor(|y| / RTOL_INV).
within_tol(x, y) == Abs(x.n - y.n) - ATOL <= Abs(y.n) \div RTOL_INV

\* A plausible slip: the relative term alone, strictly.
isclose_rel_only(x, y) ==
    IF x.cls = "fin" /\ y.cls = "fin"
    THEN Abs(y.n) > 0 /\ Abs(x.n - y.n) <= (Abs(y.n) - 1) \div RTOL_INV
    ELSE x.cls # "nan" /\ x.cls = y.cls

\* A plausible slip: the absolute term alone.
isclose_atol_only(x, y) ==
    IF x.cls = "fin" /\ y.cls = "fin"
    THEN Abs(x.n - y.n) <= ATOL
    ELSE x.cls # "nan" /\ x.cls = y.cls

\* numpy.isclose(x, y) with its defaults (equal_nan = False): the tolerance
\* test where both are finite, x == y otherwise, and nan is close to nothing.
isclose(x, y) ==
    IF x.cls = "fin" /\ y.cls = "fin"
    THEN within_tol(x, y)
    ELSE x.cls # "nan" /\ x.cls = y.cls

\* ------------------------------------------------------- array statistics
HasCls(arr, c) == \E i \in 1..Len(arr) : arr[i].cls = c
AllFin(arr) == \A i \in 1..Len(arr) : arr[i].cls = "fin"

RECURSIVE SumN(_)
SumN(arr) == IF arr = <<>> THEN 0 ELSE Head(arr).n + SumN(Tail(arr))

\* Sum of (count * x - sum)^2: count^2 times the sum of squared deviations.
RECURSIVE SumDev2(_, _, _)
SumDev2(arr, c, s) ==
    IF arr = <<>> THEN 0
    ELSE (c * Head(arr).n - s) * (c * Head(arr).n - s) + SumDev2(Tail(arr), c, s)

\* numpy's dtype for the array: float64 if any float, else int64, else bool.
DType(arr) ==
    IF \E i \in 1..Len(arr) : arr[i].type = "float" THEN "float"
    ELSE IF \E i \in 1..Len(arr) : arr[i].type = "int" THEN "int"
    ELSE "bool"

np_mean(arr) ==
    CASE HasCls(arr, "nan") \/ (HasCls(arr, "pinf") /\ HasCls(arr, "ninf")) -> NaN
      [] HasCls(arr, "pinf") -> PInf
      [] HasCls(arr, "ninf") -> NInf
      [] OTHER -> Fin(RoundDiv(SumN(arr), Len(arr)))

\* Population standard deviation: sqrt(mean(abs(x - mean)^2)); x - mean is
\* nan or infinite for every x once one element is not finite.
np_std(arr) ==
    IF ~AllFin(arr) THEN NaN
    ELSE LET c == Len(arr)
         IN Fin(ISqrt(SumDev2(arr, c, SumN(arr)) \div (c * c * c)))

\* x <= y for numbers that are not nan.
LeNum(x, y) ==
    \/ x.cls = "ninf"
    \/ y.cls = "pinf"
    \/ x.cls = "fin" /\ y.cls = "fin" /\ x.n <= y.n

\* A plausible slip: the first element instead of the least.
np_min_first(arr) == Val(DType(arr), arr[1].cls, arr[1].n, "", <<>>, <<>>)

\* numpy.min: nan if any element is nan, else the least element.
np_min(arr) ==
    IF HasCls(arr, "nan") THEN Val(DType(arr), "nan", 0, "", <<>>, <<>>)
    ELSE LET i == CHOOSE i \in 1..Len(arr) : \A j \in 1..Len(arr) : LeNum(arr[i], arr[j])
         IN Val(DType(arr), arr[i].cls, arr[i].n, "", <<>>, <<>>)

\* numpy.max: nan if any element is nan, else the greatest element.
np_max(arr) ==
    IF HasCls(arr, "nan") THEN Val(DType(arr), "nan", 0, "", <<>>, <<>>)
    ELSE LET i == CHOOSE i \in 1..Len(arr) : \A j \in 1..Len(arr) : LeNum(arr[j], arr[i])
         IN Val(DType(arr), arr[i].cls, arr[i].n, "", <<>>, <<>>)

\* ------------------------------------------------------ difference strings
\* One segment of a path: "root", ".key" or "[i]" (i counted from 0).
RootSeg == [k |-> "root", key |-> "", idx |-> 0]
KeySeg(key) == [k |-> "key", key |-> key, idx |-> 0]
IdxSeg(i) == [k |-> "idx", key |-> "", idx |-> i]
RootPath == <<RootSeg>>

\* One string of the returned list: "[path] tag: x vs y (d)".  The sub-lines
\* of a statistical difference ("  - Count: ...") carry no path.
Diff(path, tag, x, y, d) == [path |-> path, tag |-> tag, x |-> x, y |-> y, d |-> d]
NoPath == <<>>

\* --------------------------------------------- compare_numeric_array_stats
Stats(arr) ==
    [count |-> Len(arr), mean |-> np_mean(arr), std_dev |-> np_std(arr),
     min |-> np_min(arr), max |-> np_max(arr)]

\* The sub-lines, in the order the code appends them.
stat_diffs(stats1, stats2) ==
    (IF stats1.count # stats2.count
     THEN <<Diff(NoPath, "Count", PyInt(stats1.count * ONE), PyInt(stats2.count * ONE), PyNone)>>
     ELSE <<>>)
    \o (IF ~isclose(stats1.mean, stats2.mean)
        THEN <<Diff(NoPath, "Mean", Fmt4f(stats1.mean), Fmt4f(stats2.mean),
                    Fmt4f(Minus(stats2.mean, stats1.mean)))>>
        ELSE <<>>)
    \o (IF ~isclose(stats1.std_dev, stats2.std_dev)
        THEN <<Diff(NoPath, "Std Dev", Fmt4f(stats1.std_dev), Fmt4f(stats2.std_dev), PyNone)>>
        ELSE <<>>)
    \o (IF ~isclose(stats1.min, stats2.min)
        THEN <<Diff(NoPath, "Min", stats1.min, stats2.min, PyNone)>>
        ELSE <<>>)
    \o (IF ~isclose(stats1.max, stats2.max)
        THEN <<Diff(NoPath, "Max", stats1.max, stats2.max, PyNone)>>
        ELSE <<>>)

compare_numeric_array_stats(arr1, arr2, path) ==
    IF arr1 = <<>> /\ arr2 = <<>> THEN <<>>
    ELSE IF arr1 = <<>> \/ arr2 = <<>>
    THEN <<Diff(path, "Numeric array presence mismatch", PyNone, PyNone, PyNone)>>
    ELSE LET diffs == stat_diffs(Stats(arr1), Stats(arr2))
         IN IF diffs # <<>>
            THEN <<Diff(path, "Statistical differences in numeric array",
                        PyNone, PyNone, PyNone)>> \o diffs
            ELSE <<>>

\* ------------------------------------------------------------ compare_json
\* A plausible slip: isinstance(obj2, type(obj1)) instead of comparing the
\* types; a bool is an instance of int.
type_mismatch_isinstance(obj1, obj2) ==
    ~(obj1.type = obj2.type \/ (obj1.type = "int" /\ obj2.type = "bool"))

\* type(obj1) is not type(obj2)
type_mismatch(obj1, obj2) == obj1.type # obj2.type

\* isinstance(x, (int, float)): bool is a subclass of int.
is_int_or_float(x) == x.type \in {"int", "float", "bool"}

\* all(isinstance(x, (int, float)) for x in obj)
is_numeric(obj) == \A i \in 1..Len(obj.items) : is_int_or_float(obj.items[i])

KeySet(obj) == {obj.keys[i] : i \in 1..Len(obj.keys)}

\* obj[key]
Get(obj, key) == obj.items[CHOOSE i \in 1..Len(obj.keys) : obj.keys[i] = key]

added_keys(keys1, keys2) == keys2 \ keys1

\* A plausible slip: every key of the first file.
removed_keys_all(keys1, keys2) == keys1

removed_keys(keys1, keys2) == keys1 \ keys2

common_keys(keys1, keys2) == keys1 \cap keys2

\* The keys of a set in the order its iteration yields them; ord lists every
\* key name in that order (the order of a Python set of strings is fixed by
\* the process's string hashing, so it is an input of the comparison).
IterKeys(S, ord) == SelectSeq(ord, LAMBDA k : k \in S)

RECURSIVE compare_json(_, _, _, _)
RECURSIVE compare_common(_, _, _, _, _)
RECURSIVE compare_items(_, _, _, _, _)

\* for key in common_keys: differences.extend(compare_json(...))
compare_common(ks, obj1, obj2, path, ord) ==
    IF ks = <<>> THEN <<>>
    ELSE compare_json(Get(obj1, Head(ks)), Get(obj2, Head(ks)),
                      Append(path, KeySeg(Head(ks))), ord)
         \o compare_common(Tail(ks), obj1, obj2, path, ord)

\* for i, (item1, item2) in enumerate(zip(obj1, obj2)), from index i on
\* (i counted from 1 here, written i - 1 in the path).
compare_items(i, obj1, obj2, path, ord) ==
    IF i > Len(obj1.items) \/ i > Len(obj2.items) THEN <<>>
    ELSE compare_json(obj1.items[i], obj2.items[i], Append(path, IdxSeg(i - 1)), ord)
         \o compare_items(i + 1, obj1, obj2, path, ord)

compare_json(obj1, obj2, path, ord) ==
    IF type_mismatch(obj1, obj2)
    THEN <<Diff(path, "Type mismatch", PyStr(obj1.type), PyStr(obj2.type), PyNone)>>
    ELSE IF obj1.type = "dict"
    THEN LET keys1 == KeySet(obj1)
             keys2 == KeySet(obj2)
             added == IterKeys(added_keys(keys1, keys2), ord)
             removed == IterKeys(removed_keys(keys1, keys2), ord)
             common == IterKeys(common_keys(keys1, keys2), ord)
         IN [i \in 1..Len(added) |->
                Diff(path, "Key added in second file", PyStr(added[i]), PyNone, PyNone)]
            \o [i \in 1..Len(removed) |->
                Diff(path, "Key removed in second file", PyStr(removed[i]), PyNone, PyNone)]
            \o compare_common(common, obj1, obj2, path, ord)
    ELSE IF obj1.type = "list"
    THEN IF is_numeric(obj1) /\ is_numeric(obj2)
         THEN compare_numeric_array_stats(obj1.items, obj2.items, path)
         ELSE (IF Len(obj1.items) # Len(obj2.items)
               THEN <<Diff(path, "List length mismatch",
                           PyInt(Len(obj1.items) * ONE), PyInt(Len(obj2.items) * ONE), PyNone)>>
               ELSE <<>>)
              \o compare_items(1, obj1, obj2, path, ord)
    ELSE IF is_int_or_float(obj1)
    THEN IF ~isclose(obj1, obj2)
         THEN <<Diff(path, "Numeric value mismatch", obj1, obj2, Minus(obj2, obj1))>>
         ELSE <<>>
    ELSE IF obj1 # obj2
    THEN <<Diff(path, "Value mismatch", obj1, obj2, PyNone)>>
    ELSE <<>>

\* ------------------------------------------------------------ the inputs
KeyNames == {"a", "b"}

\* Every order in which a set of key names can be iterated.
KeyOrders == {<<"a", "b">>, <<"b", "a">>}

SeqsUpTo(S, n) == UNION {[1..k -> S] : k \in 0..n}

ScalarDocs ==
    {JNull, JTrue, JFalse, JStr("x"), JStr("y"),
     JInt(0), JInt(ONE), JFloat(ONE), JFloat(ONE + 1), JFloat(ONE + 2000),
     JFloat(ONE + 4000), JFloat(99999), JFloat(100002),
     JNaN, JInf, JNegInf}

\* Elements of arrays: small numbers (the squares of the statistics stay in
\* range), one non-number of each sort the dispatch treats differently.
ElemDocs == {JFalse, JInt(0), JFloat(1), JFloat(10), JNaN, JStr("x")}

ArrayDocs == {JArr(its) : its \in SeqsUpTo(ElemDocs, MaxLen)}

MemberDocs ==
    {JStr("x"), JStr("y"), JArr(<<JInt(0)>>), JArr(<<JInt(0), JFloat(1000)>>),
     JObj(<<"b">>, <<JInt(ONE)>>)}

ObjectDocs ==
    {JObj(<<>>, <<>>)}
    \cup {JObj(<<k>>, <<v>>) : k \in KeyNames, v \in MemberDocs}
    \cup {JObj(<<"a", "b">>, <<v, w>>) : v \in MemberDocs, w \in MemberDocs}

NestedDocs ==
    {JArr(<<JStr("x"), JArr(<<JInt(0), JStr("x")>>)>>),
     JArr(<<JStr("y"), JArr(<<JFloat(10), JStr("y"), JNull>>)>>),
     JArr(<<JObj(<<"a">>, <<JStr("x")>>), JInt(0)>>),
     JArr(<<JArr(<<JInt(0)>>), JFloat(0)>>),
     JArr(<<JInf>>), JArr(<<JInf, JInt(0)>>), JArr(<<JInf, JNegInf>>),
     JArr(<<JInf, JStr("x")>>)}

Files == ScalarDocs \cup ArrayDocs \cup ObjectDocs \cup NestedDocs \cup {NoFile, BadFile}

\* ------------------------------------------------------------------ main
VARIABLES file1, file2, json1, json2, differences, pc, out, exit_status

vars == <<file1, file2, json1, json2, differences, pc, out, exit_status>>

Readable(f) == f.kind \notin {"missing", "invalid"}

Init ==
    /\ file1 \in Files
    /\ file2 \in Files
    /\ json1 = PyNone
    /\ json2 = PyNone
    /\ differences = <<>>
    /\ pc = "load1"
    /\ out = [equivalent |-> FALSE, found |-> 0]
    /\ exit_status = 0

\* json1 = load_json_file(args.file1)
Load1 ==
    /\ pc = "load1"
    /\ Readable(file1)
    /\ json1' = json_load(file1)
    /\ pc' = "load2"
    /\ UNCHANGED <<file1, file2, json2, differences, out, exit_status>>

\* json2 = load_json_file(args.file2)
Load2 ==
    /\ pc = "load2"
    /\ Readable(file2)
    /\ json2' = json_load(file2)
    /\ pc' = "compare"
    /\ UNCHANGED <<file1, file2, json1, differences, out, exit_status>>

\* FileNotFoundError or JSONDecodeError in load_json_file: sys.exit(1)
LoadFails ==
    /\ \/ pc = "load1" /\ ~Readable(file1)
       \/ pc = "load2" /\ ~Readable(file2)
    /\ exit_status' = 1
    /\ pc' = "exited"
    /\ UNCHANGED <<file1, file2, json1, json2, differences, out>>

\* differences = compare_json(json1, json2)
Compare ==
    /\ pc = "compare"
    /\ \E ord \in KeyOrders : differences' = compare_json(json1, json2, RootPath, ord)
    /\ pc' = "report"
    /\ UNCHANGED <<file1, file2, json1, json2, out, exit_status>>

\* if not differences: ... else: "Found {len(differences)} difference(s)"
Report ==
    /\ pc = "report"
    /\ out' = [equivalent |-> differences = <<>>, found |-> Len(differences)]
    /\ pc' = "done"
    /\ UNCHANGED <<file1, file2, json1, json2, differences, exit_status>>

Next == Load1 \/ Load2 \/ LoadFails \/ Compare \/ Report

Spec == Init /\ [][Next]_vars

Compared == pc \in {"report", "done"}

\* ------------------------------------------------- the vocabulary of claims
\* The kind of a TreeValue: an integer-written and a float-written number
\* are both of kind Number, a Bool is a kind of its own.
Kind(v) ==
    CASE v.type = "NoneType" -> "Null"
      [] v.type = "bool" -> "Bool"
      [] v.type \in {"int", "float"} -> "Number"
      [] v.type = "str" -> "String"
      [] v.type = "list" -> "Sequence"
      [] v.type = "dict" -> "Mapping"

AllNumberKind(v) == \A i \in 1..Len(v.items) : Kind(v.items[i]) = "Number"

BothOfType(t) == Compared /\ json1.type = t /\ json2.type = t

HasTag(ds, tag) == \E i \in 1..Len(ds) : ds[i].tag = tag

StatTags ==
    {"Statistical differences in numeric array", "Numeric array presence mismatch",
     "Count", "Mean", "Std Dev", "Min", "Max"}

\* No nan anywhere, and no infinity among the elements of a list that the
\* comparison treats as a numeric array.
RECURSIVE FiniteWhereAveraged(_)
FiniteWhereAveraged(v) ==
    /\ v.cls # "nan"
    /\ v.type = "list" /\ is_numeric(v) => AllFin(v.items)
    /\ \A i \in 1..Len(v.items) : FiniteWhereAveraged(v.items[i])

\* The reorderings of a sequence.
Reorderings(sq) ==
    {[i \in 1..Len(sq) |-> sq[p[i]]] :
        p \in {q \in [1..Len(sq) -> 1..Len(sq)] :
                 \A i, j \in 1..Len(sq) : q[i] = q[j] => i = j}}

\* The element-wise comparison of two lists: the length record when the
\* lengths differ, then the pairs in index order up to the shorter length.
RECURSIVE Pairwise(_, _, _, _)
Pairwise(i, a, b, ord) ==
    IF i > Len(a.items) \/ i > Len(b.items) THEN <<>>
    ELSE compare_json(a.items[i], b.items[i], Append(RootPath, IdxSeg(i - 1)), ord)
         \o Pairwise(i + 1, a, b, ord)

ElementWise(a, b, ord) ==
    (IF Len(a.items) # Len(b.items)
     THEN <<Diff(RootPath, "List length mismatch",
                 PyInt(Len(a.items) * ONE), PyInt(Len(b.items) * ONE), PyNone)>>
     ELSE <<>>)
    \o Pairwise(1, a, b, ord)

\* ------------------------------------------------------------------ claims

\* C1 as stated: for every value v, compare(v, v, "root") returns an empty
\* sequence.
C1_ReflexivityAll == Compared /\ json1 = json2 => differences = <<>>

\* C1, amended: compare(v, v, "root") returns an empty sequence for every v
\* that holds no nan and no infinity inside a list compared as a numeric array.
C1_ReflexivityFinite ==
    Compared /\ json1 = json2 /\ FiniteWhereAveraged(json1) => differences = <<>>

C1_Witness ==
    /\ pc = "done" /\ json1 = json2 /\ FiniteWhereAveraged(json1)
    /\ json1.type = "list" /\ is_numeric(json1) /\ Len(json1.items) = 2
    /\ json1.items[1].n # json1.items[2].n
    /\ out.equivalent

\* C2: values of different kinds yield exactly one record, at the path,
\* naming both types, whatever their children are.
C2_TypeMismatchShortCircuit ==
    Compared /\ Kind(json1) # Kind(json2) =>
        differences =
            <<Diff(RootPath, "Type mismatch", PyStr(json1.type), PyStr(json2.type), PyNone)>>

C2_Witness ==
    /\ Compared /\ json1.type = "list" /\ json2.type = "dict"
    /\ Len(json1.items) > 0 /\ Len(json2.items) > 0
    /\ Len(differences) = 1

\* C3: an integer-written and a float-written number at the same place never
\* yield a type-mismatch record.
C3_NumberIsOneKind ==
    Compared /\ Kind(json1) = "Number" /\ Kind(json2) = "Number"
             /\ json1.cls = "fin" /\ json2.cls = "fin" =>
        ~HasTag(differences, "Type mismatch")

\* C4: two sequences go to the statistical comparison exactly when all
\* elements of both are of kind Number, and then the result is that of
\* compareStats; otherwise they are compared element-wise with no
\* statistical record.
C4_SequenceDispatch ==
    BothOfType("list") =>
        IF AllNumberKind(json1) /\ AllNumberKind(json2)
        THEN differences = compare_numeric_array_stats(json1.items, json2.items, RootPath)
        ELSE /\ \E ord \in KeyOrders : differences = ElementWise(json1, json2, ord)
             /\ \A i \in 1..Len(differences) :
                    differences[i].path = RootPath => differences[i].tag \notin StatTags

\* C5: two non-empty all-numeric sequences add no record when no statistic
\* differs and exactly one otherwise, to the result and to the reported count.
C5_OneGroupedRecord ==
    /\ BothOfType("list") /\ AllNumberKind(json1) /\ AllNumberKind(json2)
       /\ json1.items # <<>> /\ json2.items # <<>>
       /\ AllFin(json1.items) /\ AllFin(json2.items)
       => /\ Len(differences) =
                IF stat_diffs(Stats(json1.items), Stats(json2.items)) = <<>> THEN 0 ELSE 1
          /\ pc = "done" => out.found = Len(differences)
    /\ BothOfType("dict") /\ pc = "done"
       /\ file1 = JObj(<<"a", "b">>, <<JArr(<<JInt(0)>>), JStr("x")>>)
       /\ file2 = JObj(<<"a", "b">>, <<JArr(<<JInt(0), JFloat(1000)>>), JStr("y")>>)
       => out.found = 2

\* C6: two sequences that are not both all-numeric yield the length record
\* if and only if the lengths differ, then the comparisons of the pairs in
\* index order up to the shorter length.
C6_ListLengthPairwise ==
    BothOfType("list") /\ ~(AllNumberKind(json1) /\ AllNumberKind(json2)) =>
        \E ord \in KeyOrders : differences = ElementWise(json1, json2, ord)

\* The indices of the records at the root path that carry the given tag.
RootRecs(tag) ==
    {i \in 1..Len(differences) :
        differences[i].path = RootPath /\ differences[i].tag = tag}

\* C7: one "key added" record for each key only in the second mapping, one
\* "key removed" record for each key only in the first, none for a common
\* key, and each common key compared once at path.key.
C7_KeySetCompleteness ==
    BothOfType("dict") =>
        LET keys1 == KeySet(json1)
            keys2 == KeySet(json2)
            added == RootRecs("Key added in second file")
            removed == RootRecs("Key removed in second file")
        IN /\ \A key \in keys2 \ keys1 :
                  Cardinality({i \in added : differences[i].x = PyStr(key)}) = 1
           /\ \A key \in keys1 \ keys2 :
                  Cardinality({i \in removed : differences[i].x = PyStr(key)}) = 1
           /\ Cardinality(added) + Cardinality(removed)
                  = Cardinality(keys2 \ keys1) + Cardinality(keys1 \ keys2)
           /\ \E ord \in KeyOrders :
                  SubSeq(differences, Cardinality(added) + Cardinality(removed) + 1,
                         Len(differences))
                  = compare_common(IterKeys(keys1 \cap keys2, ord), json1, json2, RootPath, ord)

C7_Witness ==
    /\ BothOfType("dict")
    /\ KeySet(json1) = {"a", "b"} /\ KeySet(json2) = {"b"}
    /\ Get(json1, "b") # Get(json2, "b")
    /\ Len(differences) > 1

\* C8 as stated: 1.0 against 1.0 + atol/2 yields no difference, and 1.0
\* against 1.0 + 1000*atol yields exactly one numeric-mismatch record.
C8_ToleranceBoundaryAsStated ==
    Compared /\ json1 = Fin(ONE) =>
        /\ json2 = Fin(ONE + ATOL \div 2) => differences = <<>>
        /\ json2 = Fin(ONE + 1000 * ATOL) =>
              Len(differences) = 1 /\ differences[1].tag = "Numeric value mismatch"

\* C8, amended: 1.0 against 1.0 + atol/2 and 1.0 against 1.0 + 1000*atol
\* both yield no difference (1000*atol = rtol*1.0 is inside atol + rtol*|b|);
\* 1.0 against 1.0 + 2000*atol yields exactly one numeric-mismatch record.
C8_ToleranceBoundary ==
    Compared /\ json1 = Fin(ONE) =>
        /\ json2 = Fin(ONE + ATOL \div 2) => differences = <<>>
        /\ json2 = Fin(ONE + 1000 * ATOL) => differences = <<>>
        /\ json2 = Fin(ONE + 2000 * ATOL) =>
              Len(differences) = 1 /\ differences[1].tag = "Numeric value mismatch"

C8_Witness ==
    /\ pc = "done" /\ json1 = Fin(ONE) /\ json2 = Fin(ONE + 2000 * ATOL)
    /\ out.found = 1

\* C9: two finite Numbers a, b yield no record if and only if
\* |a - b| <= atol + rtol*|b|, and otherwise exactly one record at the path
\* with both values and b - a.
C9_NumberRule ==
    Compared /\ Kind(json1) = "Number" /\ Kind(json2) = "Number"
             /\ json1.cls = "fin" /\ json2.cls = "fin" =>
        differences =
            IF Abs(json1.n - json2.n) - ATOL <= Abs(json2.n) \div RTOL_INV
            THEN <<>>
            ELSE <<Diff(RootPath, "Numeric value mismatch", json1, json2,
                        Minus(json2, json1))>>

====
